---- MODULE Spec2Model ----
(***************************************************************************)
(* Model of UI/inputTable.py (pychemqt): the eqDIPPR equation selector,    *)
(* the InputTableWidget table-entry widget with its open / save / delete   *)
(* handlers, and the InputTableDialog wrapping it.                         *)
(*                                                                         *)
(* A text file is a sequence of lexical tokens: "\n" ends a line, "\t"     *)
(* separates fields, "#" starts a comment, every other token is a word.    *)
(* A float is held as its number of tenths (1.0 is 10, 2.5 is 25), so that *)
(* the text of a cell, the float read from it and the text written for it  *)
(* are three different things.                                             *)
(***************************************************************************)
EXTENDS Integers, Sequences, FiniteSets, TLC

VARIABLES
    columnas,          \* self.columnas, the table's column count
    horizontalHeader,  \* the labels of the header items the table holds
    title,             \* self.title
    windowTitle,       \* the window title of the InputTableDialog
    DIPPR,             \* constructor argument DIPPR
    hasTc,             \* constructor argument hasTc
    eq,                \* constructor argument eq
    spin,              \* self.eqDIPPR.eqDIPPR, the QSpinBox
    labelTcVisible,    \* visibility set on self.labelTc
    tcVisible,         \* visibility set on self.tc
    rows,              \* the rows of self.tabla, each a row of cell texts
    outExists,         \* whether the file chosen in the save dialog exists
    outFile,           \* its content
    outData,           \* self.data at the last save that opened the file
    op,                \* the handler that ran last
    before,            \* the row count of the table when it started
    fname,             \* the file name the last handler got from its dialog
    value,             \* the argument of the last setValue
    parsed,            \* what loadtxt did in the last open
    msg,               \* the message box the last handler showed
    exc                \* the exception that escaped the last handler

vars == <<columnas, horizontalHeader, title, windowTitle, DIPPR, hasTc, eq,
          spin, labelTcVisible, tcVisible, rows, outExists, outFile, outData,
          op, before, fname, value, parsed, msg, exc>>

tableVars == <<rows, outExists, outFile, outData, fname, parsed>>
eqVars == <<spin, labelTcVisible, tcVisible, value>>
ctorVars == <<columnas, horizontalHeader, title, windowTitle, DIPPR, hasTc, eq>>

----------------------------------------------------------------------------
(* Bounds and input sets *)

MaxRows == 3

Columnas == {1, 2}
Titles == {"", "T"}
HeaderLabels == <<"h1", "h2">>
UserTexts == {"1"}
EqArgs == {-1, 0, 1, 7, 9, 10, 150}
SetValueArgs == {-5, 0, 1, 3, 7, 8, 9, 10, 120}
Steps == {-1, 1}

Min(a, b) == IF a < b THEN a ELSE b
Max(a, b) == IF a > b THEN a ELSE b

----------------------------------------------------------------------------
(* QSpinBox, as eqDIPPR uses it *)

SpinDefaultMinimum == 0
SpinDefaultMaximum == 99
EqMinimum == 1
EqMaximum == 9

Bound(v, lo, hi) == Max(lo, Min(hi, v))

QSpinBox == [value |-> 0, minimum |-> SpinDefaultMinimum,
             maximum |-> SpinDefaultMaximum]

QSpinBox_setValue(sb, v) ==
    [sb EXCEPT !.value = Bound(v, sb.minimum, sb.maximum)]

QSpinBox_setRange(sb, lo, hi) ==
    [value |-> Bound(sb.value, lo, Max(lo, hi)),
     minimum |-> lo, maximum |-> Max(lo, hi)]

NoSpin == [value |-> 0, minimum |-> 0, maximum |-> 0]

eqDIPPR_init_noRange(v) == QSpinBox_setValue(QSpinBox, v)

eqDIPPR_init(v) ==
    QSpinBox_setRange(QSpinBox_setValue(QSpinBox, v), EqMinimum, EqMaximum)

showTc(v) == v \in {7, 9}

InitialShowTc == showTc(1)

----------------------------------------------------------------------------
(* InputTableDialog *)

MoodyTitle == "Moody diagram configuration"

InputTableDialog_windowTitle(t) ==
    LET first == t
        second == MoodyTitle
    IN second

----------------------------------------------------------------------------
(* Cell texts and floats *)

NumTexts == {"1", "1.0", "2.5"}

float(txt) ==
    CASE txt = "1" -> 10
      [] txt = "1.0" -> 10
      [] txt = "2.5" -> 25
      [] OTHER -> 0

str(x) ==
    CASE x = 10 -> "1.0"
      [] x = 25 -> "2.5"
      [] OTHER -> "0.0"

----------------------------------------------------------------------------
(* Tabla, the table grid (a QTableWidget) *)

EmptyRow(c) == [j \in 1..c |-> ""]

RowComplete(r) == \A j \in 1..Len(r) : r[j] # ""

Tabla_addRow(rs, c) == Append(rs, EmptyRow(c))

\* the table is connected (setConnected): completing the last row adds a row
Tabla_cellChanged(rs, i) ==
    IF i = Len(rs) /\ RowComplete(rs[i])
    THEN Tabla_addRow(rs, Len(rs[i]))
    ELSE rs

Tabla_setText(rs, i, j, txt) ==
    Tabla_cellChanged([rs EXCEPT ![i][j] = txt], i)

RECURSIVE Tabla_setRow(_, _, _, _)
Tabla_setRow(rs, i, vals, j) ==
    IF j > Len(vals) THEN rs
    ELSE Tabla_setRow(Tabla_setText(rs, i, j, str(vals[j])), i, vals, j + 1)

RECURSIVE Tabla_setDataFrom(_, _, _, _)
Tabla_setDataFrom(rs, matriz, i, c) ==
    IF i > Len(matriz) THEN rs
    ELSE LET r1 == IF i > Len(rs) THEN Tabla_addRow(rs, c) ELSE rs
         IN Tabla_setDataFrom(Tabla_setRow(r1, i, matriz[i], 1), matriz, i + 1, c)

Tabla_setData(rs, matriz, c) == Tabla_setDataFrom(rs, matriz, 1, c)

\* every row but the last one, which is the row being entered
Tabla_getData(rs) ==
    [i \in 1..(Len(rs) - 1) |-> [j \in 1..Len(rs[i]) |-> float(rs[i][j])]]

QTableWidget_setRowCount(rs, n) == SubSeq(rs, 1, Min(n, Len(rs)))

QTableWidget_clearContents(rs) ==
    [i \in 1..Len(rs) |-> [j \in 1..Len(rs[i]) |-> ""]]

horizontalHeaderItem(hh, i) == IF i <= Len(hh) THEN hh[i] ELSE "None"

----------------------------------------------------------------------------
(* InputTableWidget.delete and InputTableWidget.data *)

delete_keepRows(rs, c) ==
    Tabla_addRow(QTableWidget_clearContents(rs), c)

deleted(rs, c) ==
    Tabla_addRow(
        QTableWidget_clearContents(QTableWidget_setRowCount(rs, 0)), c)

data == Tabla_getData(rows)

----------------------------------------------------------------------------
(* numpy.loadtxt on the tokens of a file *)

RECURSIVE SplitLines(_, _)
SplitLines(toks, cur) ==
    IF toks = <<>> THEN (IF cur = <<>> THEN <<>> ELSE <<cur>>)
    ELSE IF Head(toks) = "\n" THEN <<cur>> \o SplitLines(Tail(toks), <<>>)
    ELSE SplitLines(Tail(toks), Append(cur, Head(toks)))

RECURSIVE StripComment(_)
StripComment(line) ==
    IF line = <<>> THEN <<>>
    ELSE IF Head(line) = "#" THEN <<>>
    ELSE <<Head(line)>> \o StripComment(Tail(line))

IsWord(t) == t # "\t" /\ t # ""

Fields(line) == SelectSeq(StripComment(line), IsWord)

RECURSIVE DataLines(_)
DataLines(lines) ==
    IF lines = <<>> THEN <<>>
    ELSE LET f == Fields(Head(lines))
         IN (IF f = <<>> THEN <<>> ELSE <<f>>) \o DataLines(Tail(lines))

ValueError == [error |-> TRUE, ndim |-> 1, rows |-> <<>>]

\* the array loadtxt returns, squeezed: rows keeps the lines read, ndim the
\* number of dimensions left
loadtxt(toks) ==
    LET ls == DataLines(SplitLines(toks, <<>>))
        n == Len(ls)
        k == IF n = 0 THEN 0 ELSE Len(ls[1])
    IN IF \E i \in 1..n : \E j \in 1..Len(ls[i]) : ls[i][j] \notin NumTexts
       THEN ValueError
       ELSE IF \E i \in 1..n : Len(ls[i]) # k
       THEN ValueError
       ELSE [error |-> FALSE,
             ndim |-> IF n = 0 THEN 1
                      ELSE IF n = 1 /\ k = 1 THEN 0
                      ELSE IF n = 1 \/ k = 1 THEN 1
                      ELSE 2,
             rows |-> [i \in 1..n |-> [j \in 1..k |-> float(ls[i][j])]]]

NotParsed == [error |-> FALSE, ndim |-> 1, rows |-> <<>>]

\* setData walks the array as rows of cells: a scalar has no rows, and the
\* elements of a one-dimensional array have no cells
setDataRaises(p) == p.ndim = 0 \/ (p.ndim = 1 /\ p.rows # <<>>)

----------------------------------------------------------------------------
(* InputTableWidget.save: the tokens written before the file is closed *)

RECURSIVE HeaderTokens(_, _, _)
HeaderTokens(hh, i, c) ==
    IF i > c \/ horizontalHeaderItem(hh, i) = "None" THEN <<>>
    ELSE <<horizontalHeaderItem(hh, i), "\t">> \o HeaderTokens(hh, i + 1, c)

RECURSIVE RowTokens(_, _, _)
RowTokens(fila, columna, c) ==
    IF columna > c THEN <<"\n">>
    ELSE <<str(fila[columna]), "\t">> \o RowTokens(fila, columna + 1, c)

RECURSIVE DataTokens(_, _)
DataTokens(d, c) ==
    IF d = <<>> THEN <<>>
    ELSE RowTokens(Head(d), 1, c) \o DataTokens(Tail(d), c)

\* item.text() on a column without a header item: item is None
saveRaises(hh, c) == \E i \in 1..c : horizontalHeaderItem(hh, i) = "None"

saveTokens(t, hh, c, d) ==
    <<"#", t, "\n", "#">> \o HeaderTokens(hh, 1, c)
        \o (IF saveRaises(hh, c) THEN <<>> ELSE <<"\n">> \o DataTokens(d, c))

----------------------------------------------------------------------------
(* The files the open dialog can return *)

FileBad == <<"abc", "\t", "1.0", "\n">>
FileRagged == <<"1.0", "\t", "2.5", "\n", "1.0", "\n">>
File22 == <<"#", "c", "\n", "1", "\t", "2.5", "\n", "2.5", "\t", "1.0", "\n">>
File12 == <<"1.0", "\t", "2.5", "\n">>
File21 == <<"1", "\n", "2.5", "\n">>

ExternalFiles == {"bad", "ragged", "f22", "f12", "f21"}
OpenNames == {"", "out"} \cup ExternalFiles
SaveNames == {"", "out"}

FileContent(f) ==
    CASE f = "out" -> outFile
      [] f = "bad" -> FileBad
      [] f = "ragged" -> FileRagged
      [] f = "f22" -> File22
      [] f = "f12" -> File12
      [] f = "f21" -> File21
      [] OTHER -> <<>>

LoadFailed == "Failed to load file"

----------------------------------------------------------------------------
(* InputTableWidget.open: the rows of the table after the handler *)

openRows_deleteFirst(rs, c, f, content) ==
    IF f = "" THEN rs
    ELSE LET p == loadtxt(content)
             cleared == deleted(rs, c)
         IN IF p.error THEN cleared
            ELSE IF setDataRaises(p) THEN cleared
            ELSE Tabla_setData(cleared, p.rows, c)

openRows_noCancel(rs, c, f, content) ==
    LET p == loadtxt(content)
    IN IF p.error THEN rs
       ELSE IF setDataRaises(p) THEN deleted(rs, c)
       ELSE Tabla_setData(deleted(rs, c), p.rows, c)

openRows(rs, c, f, content) ==
    IF f = "" THEN rs
    ELSE LET p == loadtxt(content)
         IN IF p.error THEN rs
            ELSE IF setDataRaises(p) THEN deleted(rs, c)
            ELSE Tabla_setData(deleted(rs, c), p.rows, c)

----------------------------------------------------------------------------
(* Construction *)

Headers(c) == {<<>>, SubSeq(HeaderLabels, 1, c)}

\* the widget as built without initial data (data=None, t=[], property=[]):
\* the connected table holds its one empty entry row
InputTableWidget_init(c, hh, t, d, h, e) ==
    /\ columnas = c
    /\ horizontalHeader = hh
    /\ title = t
    /\ windowTitle = InputTableDialog_windowTitle(t)
    /\ DIPPR = d
    /\ hasTc = h
    /\ eq = e
    /\ spin = IF d THEN eqDIPPR_init(e) ELSE NoSpin
    /\ labelTcVisible = (d /\ InitialShowTc)
    /\ tcVisible = (d /\ InitialShowTc)
    /\ rows = <<EmptyRow(c)>>
    /\ outExists = FALSE
    /\ outFile = <<>>
    /\ outData = <<>>
    /\ op = "init"
    /\ before = 0
    /\ fname = ""
    /\ value = 0
    /\ parsed = NotParsed
    /\ msg = ""
    /\ exc = "none"

Init ==
    \E c \in Columnas, t \in Titles :
        \E hh \in Headers(c) :
            InputTableWidget_init(c, hh, t, TRUE, FALSE, 7)

InitEq ==
    \E t \in Titles, h \in BOOLEAN, e \in EqArgs :
        InputTableWidget_init(2, HeaderLabels, t, TRUE, h, e)

----------------------------------------------------------------------------
(* The handlers of the table *)

\* the user types a number into cell (i, j)
edit(i, j, txt) ==
    /\ Len(Tabla_setText(rows, i, j, txt)) <= MaxRows
    /\ rows' = Tabla_setText(rows, i, j, txt)
    /\ op' = "edit"
    /\ before' = Len(rows)
    /\ fname' = ""
    /\ parsed' = NotParsed
    /\ msg' = ""
    /\ exc' = "none"
    /\ UNCHANGED <<outExists, outFile, outData>>
    /\ UNCHANGED eqVars
    /\ UNCHANGED ctorVars

open(f) ==
    /\ f = "out" => outExists
    /\ LET p == loadtxt(FileContent(f))
       IN \* the files chosen have the table's column count and fit the bound
          /\ (f # "" /\ ~p.error /\ p.rows # <<>>) =>
                 (Len(p.rows[1]) = columnas /\ Len(p.rows) < MaxRows)
          /\ rows' = openRows(rows, columnas, f, FileContent(f))
          /\ parsed' = IF f = "" THEN NotParsed ELSE p
          /\ msg' = IF f # "" /\ p.error THEN LoadFailed ELSE ""
          /\ exc' = IF f # "" /\ ~p.error /\ setDataRaises(p)
                    THEN "TypeError" ELSE "none"
    /\ op' = "open"
    /\ before' = Len(rows)
    /\ fname' = f
    /\ UNCHANGED <<outExists, outFile, outData>>
    /\ UNCHANGED eqVars
    /\ UNCHANGED ctorVars

save(f) ==
    /\ IF f = ""
       THEN UNCHANGED <<outExists, outFile, outData>>
       ELSE /\ outExists' = TRUE
            /\ outFile' = saveTokens(title, horizontalHeader, columnas, data)
            /\ outData' = data
    /\ exc' = IF f # "" /\ saveRaises(horizontalHeader, columnas)
              THEN "AttributeError" ELSE "none"
    /\ msg' = ""
    /\ op' = "save"
    /\ before' = Len(rows)
    /\ fname' = f
    /\ parsed' = NotParsed
    /\ UNCHANGED rows
    /\ UNCHANGED eqVars
    /\ UNCHANGED ctorVars

delete ==
    /\ rows' = deleted(rows, columnas)
    /\ op' = "delete"
    /\ before' = Len(rows)
    /\ fname' = ""
    /\ parsed' = NotParsed
    /\ msg' = ""
    /\ exc' = "none"
    /\ UNCHANGED <<outExists, outFile, outData>>
    /\ UNCHANGED eqVars
    /\ UNCHANGED ctorVars

----------------------------------------------------------------------------
(* The handlers of the equation selector *)

\* QSpinBox emits valueChanged, connected to showTc, when the value changes
spinChanged(sb) ==
    /\ spin' = sb
    /\ IF sb.value # spin.value
       THEN /\ labelTcVisible' = showTc(sb.value)
            /\ tcVisible' = showTc(sb.value)
       ELSE UNCHANGED <<labelTcVisible, tcVisible>>

setValue(v) ==
    /\ DIPPR
    /\ spinChanged(QSpinBox_setValue(spin, v))
    /\ value' = v
    /\ op' = "setValue"
    /\ before' = Len(rows)
    /\ msg' = ""
    /\ exc' = "none"
    /\ UNCHANGED tableVars
    /\ UNCHANGED ctorVars

\* the arrows of the spin box
stepBy(d) ==
    /\ DIPPR
    /\ spinChanged(QSpinBox_setValue(spin, spin.value + d))
    /\ op' = "stepBy"
    /\ before' = Len(rows)
    /\ msg' = ""
    /\ exc' = "none"
    /\ UNCHANGED value
    /\ UNCHANGED tableVars
    /\ UNCHANGED ctorVars

\* eqDIPPR.clear empties the line edit; the value stays
clear ==
    /\ DIPPR
    /\ op' = "clear"
    /\ before' = Len(rows)
    /\ msg' = ""
    /\ exc' = "none"
    /\ UNCHANGED eqVars
    /\ UNCHANGED tableVars
    /\ UNCHANGED ctorVars

----------------------------------------------------------------------------
(* Specifications: the table handlers and the equation handlers touch      *)
(* disjoint parts of the state and are explored separately.                *)

Edit == \E i \in 1..Len(rows), j \in 1..columnas, txt \in UserTexts : edit(i, j, txt)
Open == \E f \in OpenNames : open(f)
Save == \E f \in SaveNames : save(f)
Delete == delete

Next == Edit \/ Open \/ Save \/ Delete

Spec == Init /\ [][Next]_vars

SetValue == \E v \in SetValueArgs : setValue(v)
StepBy == \E d \in Steps : stepBy(d)
Clear == clear

NextEq == SetValue \/ StepBy \/ Clear

SpecEq == InitEq /\ [][NextEq]_vars

----------------------------------------------------------------------------
(* Claims *)

TcShown == labelTcVisible /\ tcVisible
TcHidden == ~labelTcVisible /\ ~tcVisible

\* C1: with DIPPR enabled and an initial equation in 1..9, in every reachable
\* state the Tc label and the Tc entry are visible if and only if the selected
\* equation is 7 or 9.
C1_TcVisibleIffEquation7or9 ==
    (DIPPR /\ eq \in 1..9) =>
        IF spin.value \in {7, 9} THEN TcShown ELSE TcHidden

\* C2: when the loader raises ValueError on the chosen file, open shows the
\* 'Failed to load file' message, lets no exception escape and leaves the
\* rows and cells of the table as they were.
C2_FailedLoadKeepsTable ==
    [][(op' = "open" /\ fname' # "" /\ parsed'.error) =>
           (msg' = LoadFailed /\ exc' = "none" /\ rows' = rows)]_vars

C2_Witness ==
    /\ op = "open"
    /\ fname = "bad"
    /\ parsed.error
    /\ msg = LoadFailed
    /\ Len(rows) = MaxRows
    /\ before = MaxRows

\* the text of the header of column i: its item's text, or the column number
\* the grid shows for a column without an item
C3_HeaderText(i) ==
    IF i <= Len(horizontalHeader) THEN horizontalHeader[i]
    ELSE IF i = 1 THEN "1" ELSE "2"

C3_HeaderLine ==
    IF columnas = 1 THEN <<C3_HeaderText(1), "\t">>
    ELSE <<C3_HeaderText(1), "\t", C3_HeaderText(2), "\t">>

C3_DataLine(r) ==
    IF columnas = 1 THEN <<str(r[1]), "\t", "\n">>
    ELSE <<str(r[1]), "\t", str(r[2]), "\t", "\n">>

RECURSIVE C3_DataLines(_)
C3_DataLines(d) ==
    IF d = <<>> THEN <<>> ELSE C3_DataLine(Head(d)) \o C3_DataLines(Tail(d))

\* C3: after a save with a file name, whatever the header configuration, the
\* file is '#' + title, then '#' and every column header text each followed by
\* a tab, then one line per row of the data with each cell followed by a tab.
C3_SaveWritesTwoHeaderLinesAndRows ==
    (op = "save" /\ fname # "") =>
        outFile = <<"#", title, "\n", "#">> \o C3_HeaderLine \o <<"\n">>
                      \o C3_DataLines(data)

\* C4: the window title of the dialog after construction is the title
\* argument.
C4_WindowTitleIsTitleArgument == windowTitle = title

\* C5: right after construction with DIPPR enabled, the Tc label and entry
\* are shown exactly when the widget was built with hasTc true.
C5_HasTcDecidesTcVisibility ==
    (DIPPR /\ op = "init") =>
        (labelTcVisible = hasTc /\ tcVisible = hasTc)

\* C6: after delete the table has exactly one row, that row is empty, and a
\* second delete leaves the table as the first one left it.
C6_DeleteLeavesOneEmptyRow ==
    op = "delete" =>
        /\ Len(rows) = 1
        /\ \A j \in 1..columnas : rows[1][j] = ""
        /\ DOMAIN rows[1] = 1..columnas
        /\ deleted(rows, columnas) = rows

C6_Witness ==
    /\ op = "delete"
    /\ before = MaxRows
    /\ rows = <<EmptyRow(columnas)>>

\* C7: after an open whose file was chosen and parsed, the table holds the
\* parsed file data and nothing else: its data is the array read, followed
\* only by the empty entry row.
C7_OpenReplacesContentByParsedData ==
    (op = "open" /\ fname # "" /\ ~parsed.error) =>
        /\ data = parsed.rows
        /\ Len(rows) = Len(parsed.rows) + 1
        /\ rows[Len(rows)] = EmptyRow(columnas)

\* C8: the selected equation of the eqDIPPR widget is in 1..9 in every
\* reachable state, for any initial value and after any setValue calls.
C8_EquationWithin1to9 ==
    DIPPR => (spin.value \in 1..9 /\ spin.minimum = 1 /\ spin.maximum = 9)

C8_Witness ==
    /\ DIPPR
    /\ eq > SpinDefaultMaximum
    /\ op = "setValue"
    /\ value > EqMaximum
    /\ spin.value = EqMaximum

\* C9: a cancelled open leaves the rows of the table unchanged and shows no
\* message, a cancelled save writes no file, and save, cancelled or not,
\* changes neither the table content nor the title nor the selected equation.
C9_CancelAndSaveFrame ==
    [][/\ (op' = "open" /\ fname' = "") =>
              (rows' = rows /\ msg' = "" /\ exc' = "none")
       /\ (op' = "save" /\ fname' = "") =>
              (outExists' = outExists /\ outFile' = outFile)
       /\ op' = "save" =>
              (rows' = rows /\ title' = title /\ spin' = spin)]_vars

C9_Witness ==
    /\ op = "open"
    /\ fname = ""
    /\ before = MaxRows
    /\ Len(rows) = MaxRows
    /\ outExists

\* C10: opening the file the table was saved to, with the table still holding
\* the data saved, shows no error message, raises nothing and leaves the data
\* of the widget equal to the data saved.
C10_SaveOpenRoundTrip ==
    [][(op' = "open" /\ fname' = "out" /\ data = outData) =>
           (msg' = "" /\ exc' = "none" /\ data' = outData)]_vars

====
